---- MODULE Spec2Model ----
(***************************************************************************)
(* A model of the fake-account detector: the Instagram profile fetcher     *)
(* (utils/instagram_fetch.py), the verdict engine (utils/verdict.py) and   *)
(* the perceptual duplicate detector (utils/image_check.py).               *)
(*                                                                         *)
(* Text that the code takes apart (usernames, counts) is a sequence of     *)
(* one-character strings; text it only passes on (messages, biographies)   *)
(* is a string.                                                            *)
(***************************************************************************)
EXTENDS Integers, Sequences, FiniteSets, TLC

VARIABLES
    pc,                \* where the modelled call stands
    username,          \* fetch_instagram_profile: the raw username argument
    config,            \* credentials / environment the call runs with
    cleaned_username,  \* instagram_fetch.py:464
    next_fetcher,      \* index into `fetchers` of the loop at line 479
    errors,            \* instagram_fetch.py:468
    invoked,           \* history: the (fetcher, handle) pairs invoked so far
    result,            \* what the call returned, or the fault it raised
    args,              \* the arguments of compute_verdict, _to_int or
                       \* check_image_originality
    locals,            \* the local variables of a running call
    ret                \* its return value

vars == <<pc, username, config, cleaned_username, next_fetcher, errors,
          invoked, result, args, locals, ret>>

(***************************************************************************)
(* Only({body : x \in {e}}) is body with x bound to the value of e: e is   *)
(* evaluated once, where LET would re-evaluate a definition at each use.   *)
(***************************************************************************)
Only(S) == CHOOSE r \in S : TRUE

(***************************************************************************)
(* Text helpers: str.strip, str.lstrip("@"), str.lower, str.replace.       *)
(***************************************************************************)
Digits == {"0", "1", "2", "3", "4", "5", "6", "7", "8", "9"}

DigitVal(c) ==
    CASE c = "0" -> 0 [] c = "1" -> 1 [] c = "2" -> 2 [] c = "3" -> 3
      [] c = "4" -> 4 [] c = "5" -> 5 [] c = "6" -> 6 [] c = "7" -> 7
      [] c = "8" -> 8 [] c = "9" -> 9

IsSpace(c) == c = " "

RECURSIVE LStrip(_)
LStrip(s) ==
    IF s # <<>> /\ IsSpace(Head(s)) THEN LStrip(Tail(s)) ELSE s

RECURSIVE RStrip(_)
RStrip(s) ==
    IF s # <<>> /\ IsSpace(s[Len(s)]) THEN RStrip(SubSeq(s, 1, Len(s) - 1)) ELSE s

Strip(s) == RStrip(LStrip(s))

RECURSIVE LStripAt(_)
LStripAt(s) ==
    IF s # <<>> /\ Head(s) = "@" THEN LStripAt(Tail(s)) ELSE s

LowerChar(c) ==
    CASE c = "K" -> "k" [] c = "M" -> "m" [] c = "N" -> "n" [] c = "A" -> "a"
      [] OTHER -> c

Lower(s) == [i \in 1..Len(s) |-> LowerChar(s[i])]

RECURSIVE RemoveCommas(_)
RemoveCommas(s) ==
    IF s = <<>> THEN <<>>
    ELSE IF Head(s) = "," THEN RemoveCommas(Tail(s))
    ELSE <<Head(s)>> \o RemoveCommas(Tail(s))

(***************************************************************************)
(* Arbitrary-precision naturals, little-endian limbs in base Base, with no *)
(* leading zero limb.  They carry the 53-bit significands of Python's      *)
(* float, which no machine integer of the checker holds.                   *)
(***************************************************************************)
Base == 100 * 100

RECURSIVE BigOfInt(_)
BigOfInt(n) == IF n = 0 THEN <<>> ELSE <<n % Base>> \o BigOfInt(n \div Base)

RECURSIVE BigToInt(_)
BigToInt(X) == IF X = <<>> THEN 0 ELSE Head(X) + Base * BigToInt(Tail(X))

RECURSIVE BigTrim(_)
BigTrim(X) ==
    IF X # <<>> /\ X[Len(X)] = 0 THEN BigTrim(SubSeq(X, 1, Len(X) - 1)) ELSE X

RECURSIVE BigMulCarry(_, _, _)
BigMulCarry(X, c, carry) ==
    IF X = <<>> THEN BigOfInt(carry)
    ELSE <<(Head(X) * c + carry) % Base>>
            \o BigMulCarry(Tail(X), c, (Head(X) * c + carry) \div Base)

BigMulSmall(X, c) == BigTrim(BigMulCarry(X, c, 0))

\* Long division by a small divisor, from the most significant limb down:
\* the quotient's limbs above i are in q, the running remainder in rem.
RECURSIVE BigDivStep(_, _, _, _, _)
BigDivStep(X, c, i, rem, q) ==
    IF i = 0 THEN [q |-> BigTrim(q), r |-> rem]
    ELSE BigDivStep(X, c, i - 1, (rem * Base + X[i]) % c,
                    <<(rem * Base + X[i]) \div c>> \o q)

BigDivSmall(X, c) == BigDivStep(X, c, Len(X), 0, <<>>)

RECURSIVE BigLessFrom(_, _, _)
BigLessFrom(X, Y, i) ==
    IF i = 0 THEN FALSE
    ELSE IF X[i] # Y[i] THEN X[i] < Y[i]
    ELSE BigLessFrom(X, Y, i - 1)

BigLess(X, Y) ==
    IF Len(X) # Len(Y) THEN Len(X) < Len(Y) ELSE BigLessFrom(X, Y, Len(X))

RECURSIVE BigInc(_)
BigInc(X) ==
    IF X = <<>> THEN <<1>>
    ELSE IF Head(X) + 1 < Base THEN <<Head(X) + 1>> \o Tail(X)
    ELSE <<0>> \o BigInc(Tail(X))

BigOdd(X) == X # <<>> /\ Head(X) % 2 = 1

RECURSIVE Pow2(_)
Pow2(e) == IF e = 0 THEN 1 ELSE 2 * Pow2(e - 1)

RECURSIVE Pow10(_)
Pow10(d) == IF d = 0 THEN 1 ELSE 10 * Pow10(d - 1)

\* Shifts go in chunks of at most 15 bits, so that a limb times the chunk
\* stays a machine integer.
RECURSIVE BigShl(_, _)
BigShl(X, s) ==
    IF s = 0 THEN X
    ELSE IF s > 15 THEN BigShl(BigMulSmall(X, Pow2(15)), s - 15)
    ELSE BigMulSmall(X, Pow2(s))

RECURSIVE BigShr(_, _)
BigShr(X, s) ==
    IF s = 0 THEN X
    ELSE IF s > 15 THEN BigShr(BigDivSmall(X, Pow2(15)).q, s - 15)
    ELSE BigDivSmall(X, Pow2(s)).q

(***************************************************************************)
(* IEEE-754 binary64 as Python's float: a value is sig / 2^exp with        *)
(* sig < 2^53, rounded to nearest, ties to even.                           *)
(***************************************************************************)
Two52 == <<496, 2737, 5996, 4503>>
Two53 == <<992, 5474, 1992, 9007>>

\* Binary descent over the shift widths: the widest shift that keeps a
\* monotone test true is the sum of the widths that each keep it true.
ShiftSteps == <<64, 32, 16, 8, 4, 2, 1>>

\* X = n * 2^k for the largest k whose quotient by den is still below 2^52;
\* one more doubling gives the 53-bit quotient.
RECURSIVE ScaleUp(_, _, _, _)
ScaleUp(X, k, den, steps) ==
    IF steps = <<>> THEN [x |-> BigMulSmall(X, 2), exp |-> k + 1]
    ELSE Only({IF BigLess(BigDivSmall(Y, den).q, Two52)
               THEN ScaleUp(Y, k + Head(steps), den, Tail(steps))
               ELSE ScaleUp(X, k, den, Tail(steps)) :
               Y \in {BigShl(X, Head(steps))}})

\* The quotient qr of a scaled numerator, rounded to nearest, ties to even.
RoundQuotient(qr, den, exp) ==
    [sig |-> IF 2 * qr.r > den \/ (2 * qr.r = den /\ BigOdd(qr.q))
             THEN BigInc(qr.q) ELSE qr.q,
     exp |-> exp]

\* float("<n with d fractional digits>"): the double nearest to n / 10^d,
\* for 0 < n < 2^31.
FloatOfDecimal(n, d) ==
    Only({RoundQuotient(BigDivSmall(s.x, Pow10(d)), Pow10(d), s.exp) :
        s \in {ScaleUp(BigOfInt(n), 0, Pow10(d), ShiftSteps)}})

\* The last halving of RoundSig: h is P divided by 2.
RoundHalf(h, k, sticky) ==
    [sig |-> IF h.r = 1 /\ (sticky \/ BigOdd(h.q)) THEN BigInc(h.q) ELSE h.q,
     exp |-> k - 1]

\* P / 2^k rounded to 53 bits, to nearest, ties to even: shift P right as far
\* as it keeps 54 bits (sticky: a one was shifted out), then once more.
RECURSIVE RoundSig(_, _, _, _)
RoundSig(P, k, sticky, steps) ==
    IF steps = <<>>
    THEN IF BigLess(P, Two53) THEN [sig |-> P, exp |-> k]
         ELSE RoundHalf(BigDivSmall(P, 2), k, sticky)
    ELSE Only({IF ~BigLess(half.q, Two53)
               THEN RoundSig(half.q, k - Head(steps), sticky \/ half.r # 0, Tail(steps))
               ELSE RoundSig(P, k, sticky, Tail(steps)) :
               half \in {BigDivSmall(P, Pow2(Head(steps)))}})

\* float * int, for a multiplier that is a power of 1000.
RECURSIVE BigMulPow1000(_, _)
BigMulPow1000(X, mult) ==
    IF mult = 1 THEN X ELSE BigMulPow1000(BigMulSmall(X, 1000), mult \div 1000)

FloatMul(f, mult) ==
    RoundSig(BigMulPow1000(f.sig, mult), f.exp, FALSE, <<16, 8, 4, 2, 1>>)

\* int(float) of a non-negative float below 2^31: truncation.
FloatTrunc(f) == BigToInt(BigShr(f.sig, f.exp))

(***************************************************************************)
(* float(text), for text over digits, ".", "-" and other characters: the   *)
(* text is stripped of blanks, then [-] digits [. digits] or [-] . digits. *)
(* The result is not ok (ValueError), or sign, digits and scale.           *)
(***************************************************************************)
RECURSIVE DigitsValue(_, _)
DigitsValue(s, acc) ==
    IF s = <<>> THEN acc ELSE DigitsValue(Tail(s), acc * 10 + DigitVal(Head(s)))

AllDigits(s) == \A i \in 1..Len(s) : s[i] \in Digits

\* The text without its first ".", and the number of characters after it.
SplitAtDot(s) ==
    IF \E i \in 1..Len(s) : s[i] = "."
    THEN Only({[digits |-> SubSeq(s, 1, dot - 1) \o SubSeq(s, dot + 1, Len(s)),
                d |-> Len(s) - dot] :
               dot \in {i \in 1..Len(s) : s[i] = "." /\ \A j \in 1..(i - 1) : s[j] # "."}})
    ELSE [digits |-> s, d |-> 0]

ParseUnsigned(body, neg) ==
    Only({IF AllDigits(sp.digits) /\ sp.digits # <<>>
        THEN [ok |-> TRUE, neg |-> neg, n |-> DigitsValue(sp.digits, 0), d |-> sp.d]
        ELSE [ok |-> FALSE, neg |-> FALSE, n |-> 0, d |-> 0] :
        sp \in {SplitAtDot(body)}})

ParseStripped(t) ==
    IF t # <<>> /\ Head(t) = "-" THEN ParseUnsigned(Tail(t), TRUE)
    ELSE ParseUnsigned(t, FALSE)

ParseFloat(text) == ParseStripped(Strip(text))

(***************************************************************************)
(* _to_int (instagram_fetch.py:109-130).  A value is None, a number        *)
(* (IntV, and NanV for a float that is not a number) or text (StrV).       *)
(* The result is [raised, v].                                              *)
(***************************************************************************)
IntV(n) == [t |-> "int", v |-> n]
StrV(s) == [t |-> "str", v |-> s]
NoneV == [t |-> "none", v |-> 0]
NanV == [t |-> "nan", v |-> 0]

Returned(n) == [raised |-> FALSE, v |-> n]
Raised == [raised |-> TRUE, v |-> 0]

Signed(neg, mag) == IF neg THEN 0 - mag ELSE mag

\* int(float(cleaned) * multiplier) inside the try of lines 127-130.
IntOfFloatTimes(cleaned, multiplier) ==
    Only({IF ~p.ok THEN 0
        ELSE IF p.n = 0 THEN 0
        ELSE Signed(p.neg, FloatTrunc(FloatMul(FloatOfDecimal(p.n, p.d), multiplier))) :
        p \in {ParseFloat(cleaned)}})

\* Lines 119-125: the multiplier and the text left of the suffix.
SplitSuffix(cleaned) ==
    IF cleaned[Len(cleaned)] = "k"
    THEN [mult |-> 1000, text |-> SubSeq(cleaned, 1, Len(cleaned) - 1)]
    ELSE IF cleaned[Len(cleaned)] = "m"
    THEN [mult |-> 1000000, text |-> SubSeq(cleaned, 1, Len(cleaned) - 1)]
    ELSE [mult |-> 1, text |-> cleaned]

ToIntCleaned(cleaned) ==
    IF cleaned = <<>> THEN 0
    ELSE IF cleaned = <<"n", "/", "a">> THEN 0
    ELSE Only({IntOfFloatTimes(sp.text, sp.mult) :
        sp \in {SplitSuffix(cleaned)}})

ToIntText(value) == ToIntCleaned(RemoveCommas(Lower(Strip(value))))

ToInt(value) ==
    CASE value.t = "none" -> Returned(0)
      [] value.t = "int"  -> Returned(value.v)
      [] value.t = "nan"  -> Raised
      [] value.t = "str"  -> Returned(ToIntText(value.v))

(***************************************************************************)
(* InstagramProfile (instagram_fetch.py:63-73) and the Optional around it. *)
(***************************************************************************)
NoProfile == [none |-> TRUE]

InstagramProfile(name, bio, followers, following, media, pic) ==
    [username |-> name, bio |-> bio, followers_count |-> followers,
     following_count |-> following, media_count |-> media,
     has_profile_pic |-> pic]

\* What a fetcher call ends with: a (profile, message) pair, or a fault that
\* propagates to its caller.
Success(profile, label) == [kind |-> "return", profile |-> profile, message |-> label]
Failure(reason) == [kind |-> "return", profile |-> NoProfile, message |-> reason]
Fault(exc) == [kind |-> "raise", profile |-> NoProfile, message |-> exc]

\* `x or default` on an optional text (a username) and an optional string (a
\* biography) of a payload.
NoBio == "(No bio)"
TextOr(x, default) == IF x.t = "none" THEN default ELSE IF x.v = <<>> THEN default ELSE x.v
StrOr(x, default) == IF x.t = "none" THEN default ELSE IF x.v = "" THEN default ELSE x.v

(***************************************************************************)
(* The external platform.  An HTTP exchange is a transport fault or a      *)
(* response with a status and a body; a JSON body is not JSON at all, a    *)
(* value that is no object, or an object.                                  *)
(***************************************************************************)
Statuses == {200, 404, 429}

StatusText(s) == CASE s = 200 -> "200" [] s = 404 -> "404" [] s = 429 -> "429"

Absent == [t |-> "absent", v |-> 0]

\* The values a "count" field or a library attribute may hold.
CountValues == {IntV(7), IntV(0), IntV(0 - 1), StrV(<<"1", ",", "2", "3", "4">>), NoneV, NanV}

\* An edge object {"count": c}, a null in its place, or no such key.
Edge(c) == [t |-> "edge", v |-> c]
Null == [t |-> "null", v |-> 0]

JsonUser(name, bio, e1, e2, e3, pic) ==
    [t |-> "user", username |-> name, biography |-> bio, edge_followed_by |-> e1,
     edge_follow |-> e2, edge_owner_to_timeline_media |-> e3, pic |-> pic]

JsonUsers ==
    {JsonUser(StrV(<<"b">>), StrV("hi"), Edge(c), Edge(IntV(3)), Edge(IntV(0)), TRUE) :
        c \in CountValues}
    \cup {JsonUser(NoneV, NoneV, Absent, Edge(IntV(0)), Absent, FALSE),
          JsonUser(NoneV, StrV(""), Edge(IntV(7)), Null, Absent, FALSE)}

\* The "user" slot: a user object, an empty object, null, absent, or a value
\* that is neither an object nor falsy.
UserSlots == JsonUsers \cup {[t |-> "empty"], Null, Absent, [t |-> "array"]}

\* A decoded body: top is the container of the user slot ("data" or
\* "graphql"): an object holding the slot, null, or absent.
JsonObject(top, user, status) == [t |-> "object", top |-> top, user |-> user, status |-> status]

JsonBodies ==
    {[t |-> "notjson"], [t |-> "array"]}
    \cup {JsonObject("object", u, "ok") : u \in UserSlots}
    \cup {JsonObject("object", Absent, "fail"), JsonObject("null", Absent, "ok"),
          JsonObject("absent", Absent, "ok"), JsonObject("absent", Absent, "fail")}

HttpJsonResponses ==
    {[t |-> "fault"]}
    \cup {[t |-> "http", status |-> s, body |-> [t |-> "notjson"]] : s \in Statuses \ {200}}
    \cup {[t |-> "http", status |-> 200, body |-> b] : b \in JsonBodies}


(***************************************************************************)
(* _fetch_via_web_profile_api (226-265) and _fetch_via_legacy_json         *)
(* (268-299).  Both read the user out of a decoded body the same way; they *)
(* differ in the container key and in their messages.                      *)
(***************************************************************************)
\* user.get(edge, {}).get("count", 0) handed to _to_int: None.get is an
\* AttributeError, and so is _to_int's ValueError a fault of the caller.
EdgeCount(edge) ==
    CASE edge.t = "absent" -> Returned(0)
      [] edge.t = "null"   -> Raised
      [] edge.t = "edge"   -> ToInt(edge.v)

UserEdges(user) ==
    <<user.edge_followed_by, user.edge_follow, user.edge_owner_to_timeline_media>>

\* The InstagramProfile(...) expression of lines 257-264 and 290-297 once its
\* three counts c are evaluated.
ProfileOfCounts(handle, user, c, label) ==
    IF \E i \in 1..3 : c[i].raised
    THEN Fault("AttributeError or ValueError")
    ELSE Success(InstagramProfile(TextOr(user.username, handle),
                                  StrOr(user.biography, NoBio),
                                  c[1].v, c[2].v, c[3].v,
                                  IF user.pic THEN 1 ELSE 0),
                 label)

ProfileOfJsonUser(handle, user, label) ==
    ProfileOfCounts(handle, user, [i \in 1..3 |-> EdgeCount(UserEdges(user)[i])], label)

\* payload.get(key, {}).get("user"): "fault" when payload or payload[key] has
\* no get, else the slot.
UserOfBody(body) ==
    IF body.t = "array" THEN [t |-> "fault"]
    ELSE IF body.top = "null" THEN [t |-> "fault"]
    ELSE IF body.top = "absent" THEN Absent
    ELSE body.user

Falsy(slot) == slot.t \in {"absent", "null", "empty"}

\* Lines 250-265, with the user slot read.
WebUser(handle, body, user) ==
    IF user.t = "fault" THEN Fault("AttributeError")
    ELSE IF Falsy(user)
         THEN IF body.status = "fail"
              THEN Failure("Web API denied access for this profile.")
              ELSE Failure("Web API user payload missing.")
    ELSE IF user.t = "array" THEN Fault("AttributeError")
    ELSE ProfileOfJsonUser(handle, user, "Instagram web API")

FetchViaWebProfileApi(handle, resp) ==
    IF resp.t = "fault" THEN Fault("requests.RequestException")
    ELSE IF resp.status = 404 THEN Failure("Username not found on Instagram.")
    ELSE IF resp.status >= 400
         THEN Failure("Web API returned HTTP " \o StatusText(resp.status) \o ".")
    ELSE IF resp.body.t = "notjson" THEN Failure("Web API returned invalid JSON.")
    ELSE WebUser(handle, resp.body, UserOfBody(resp.body))

\* Lines 285-299, with the user slot read.
LegacyUser(handle, user) ==
    IF user.t = "fault" THEN Fault("AttributeError")
    ELSE IF Falsy(user) THEN Failure("Legacy JSON user payload missing.")
    ELSE IF user.t = "array" THEN Fault("AttributeError")
    ELSE ProfileOfJsonUser(handle, user, "Instagram legacy JSON")

FetchViaLegacyJson(handle, resp) ==
    IF resp.t = "fault" THEN Fault("requests.RequestException")
    ELSE IF resp.status = 404 THEN Failure("Legacy JSON username not found.")
    ELSE IF resp.status >= 400
         THEN Failure("Legacy JSON returned HTTP " \o StatusText(resp.status) \o ".")
    ELSE IF resp.body.t = "notjson" THEN Failure("Legacy JSON invalid payload.")
    ELSE LegacyUser(handle, UserOfBody(resp.body))

(***************************************************************************)
(* The HTML extractor.  A document is what the extractor's patterns find   *)
(* in it: the three number runs of the meta description (parse_counts),    *)
(* the embedded "biography" string, the JSON-LD block, the three embedded  *)
(* edge counts and the profile_pic_url marker.                             *)
(***************************************************************************)
NA == <<"N", "/", "A">>

Document(meta, bio, ld, hints, pic) ==
    [meta |-> meta, biography |-> bio, ld |-> ld, hints |-> hints, pic |-> pic]

NoMeta == [t |-> "absent"]
Meta(f1, f2, f3) == [t |-> "meta", followers |-> f1, following |-> f2, posts |-> f3]

\* parse_counts (87-106): "N/A" for a pattern that does not match.
parse_counts(meta) ==
    IF meta.t = "absent" THEN <<NA, NA, NA>>
    ELSE <<TextOr(meta.followers, NA), TextOr(meta.following, NA), TextOr(meta.posts, NA)>>

\* str.strip on the biographies of the model.
StrStrip(s) == IF s = " " THEN "" ELSE s

\* extract_bio_from_html (133-153).
extract_bio_from_html(doc) ==
    IF doc.biography.t = "none" THEN "" ELSE StrStrip(doc.biography.v)

\* Lines 164-175: the description of the JSON-LD block, when it decodes.
LdDescription(ld) == IF ld.t = "desc" THEN StrStrip(ld.v) ELSE ""

\* Lines 162-178: the biography, its JSON-LD fallback, its placeholder.
PageBio(doc) ==
    LET bio0 == extract_bio_from_html(doc)
        bio1 == IF bio0 = "" THEN LdDescription(doc.ld) ELSE bio0
    IN  IF bio1 = "" THEN NoBio ELSE bio1

\* Lines 186-192: a hint is the digit run after an embedded edge count.
HintCount(h) == ToInt(IF h.t = "none" THEN IntV(0) ELSE h).v

AllZero(c) == c[1] = 0 /\ c[2] = 0 /\ c[3] = 0

\* Lines 194-207 with the test of line 197 on the counts alone.
ProfileOfPageCountsOnly(handle, doc, c) ==
    IF AllZero(c)
    THEN NoProfile
    ELSE InstagramProfile(handle, PageBio(doc), c[1], c[2], c[3],
                          IF doc.pic THEN 1 ELSE 0)

\* Lines 194-207, with the counts c settled.
ProfileOfPage(handle, doc, c) ==
    IF AllZero(c) /\ PageBio(doc) \in {"", NoBio}
    THEN NoProfile
    ELSE InstagramProfile(handle, PageBio(doc), c[1], c[2], c[3],
                          IF doc.pic THEN 1 ELSE 0)

\* Lines 184-192 with each zero count of the meta description replaced by
\* its own hint.
WithHintsPerField(handle, doc, m) ==
    ProfileOfPage(handle, doc,
                  [i \in 1..3 |-> IF m[i] = 0 THEN HintCount(doc.hints[i]) ELSE m[i]])

\* Lines 184-192, with the counts m of the meta description.
WithHints(handle, doc, m) ==
    IF AllZero(m)
    THEN ProfileOfPage(handle, doc, [i \in 1..3 |-> HintCount(doc.hints[i])])
    ELSE ProfileOfPage(handle, doc, m)

\* _parse_profile_from_html (156-207).
ParseProfileFromHtml(handle, doc) ==
    WithHints(handle, doc, [i \in 1..3 |-> ToInt(StrV(parse_counts(doc.meta)[i])).v])

Metas ==
    {NoMeta,
     Meta(StrV(<<"1", ",", "2", "3", "4">>), StrV(<<"5", "6">>), StrV(<<"7">>)),
     Meta(StrV(<<"0">>), StrV(<<"0">>), StrV(<<"0">>)),
     Meta(StrV(<<"1", ".", "2", ".", "3">>), NoneV, NoneV),
     Meta(StrV(<<"5">>), StrV(<<"0">>), NoneV)}

HintSets == {<<NoneV, NoneV, NoneV>>, <<StrV(<<"1", "2">>), NoneV, StrV(<<"3">>)>>}

LdBlocks == {[t |-> "absent", v |-> ""], [t |-> "invalid", v |-> ""],
             [t |-> "desc", v |-> "about"]}

Documents ==
    {Document(m, b, l, h, p) :
        m \in Metas, b \in {NoneV, StrV("hello"), StrV(" ")}, l \in LdBlocks,
        h \in HintSets, p \in BOOLEAN}

\* The pages the platform serves in the fetch model.
PageDocuments ==
    {d \in Documents : d.ld.t = "absent" /\ d.pic /\ d.biography # StrV(" ")}

(***************************************************************************)
(* _fetch_via_requests (210-223) and _fetch_via_playwright (375-409).      *)
(***************************************************************************)
HttpPageResponses ==
    {[t |-> "fault"]}
    \cup {[t |-> "http", status |-> s] : s \in Statuses \ {200}}
    \cup {[t |-> "http", status |-> 200, doc |-> d] : d \in PageDocuments}

\* Lines 219-223 and 403-407: a parsed page is a profile or a failure.
OutcomeOfPage(profile, reason, label) ==
    IF profile = NoProfile THEN Failure(reason) ELSE Success(profile, label)

FetchViaRequests(handle, resp) ==
    IF resp.t = "fault" THEN Fault("requests.RequestException")
    ELSE IF resp.status = 404 THEN Failure("Username not found on Instagram.")
    ELSE IF resp.status >= 400
         THEN Failure("Instagram returned HTTP " \o StatusText(resp.status) \o ".")
    ELSE OutcomeOfPage(ParseProfileFromHtml(handle, resp.doc),
                       "Instagram page parsing failed.", "Requests scraper")

\* What a library call raises with.
ExcTexts == {"429 Too Many Requests", "Please wait a few minutes"}

BrowserResponses ==
    {[t |-> "not_installed"]}
    \cup {[t |-> "exception", text |-> "Timeout 60000ms exceeded"]}
    \cup (HttpPageResponses \ {[t |-> "fault"]})

FetchViaPlaywright(handle, resp) ==
    IF resp.t = "not_installed" THEN Failure("Playwright unavailable.")
    ELSE IF resp.t = "exception" THEN Failure("Playwright failed: " \o resp.text)
    ELSE IF resp.status >= 400
         THEN Failure("Instagram returned HTTP " \o StatusText(resp.status) \o ".")
    ELSE OutcomeOfPage(ParseProfileFromHtml(handle, resp.doc),
                       "Playwright page parsing failed.", "Playwright scraper")

(***************************************************************************)
(* _fetch_via_instagrapi (302-339) and _fetch_via_instaloader (342-372).   *)
(* A library answers with an import failure, an exception, or an object    *)
(* whose attributes the strategy reads inside its try.                     *)
(***************************************************************************)
LibraryUser(name, bio, followers, following, media, pic) ==
    [username |-> name, biography |-> bio, followers |-> followers,
     following |-> following, media |-> media, pic |-> pic]

LibraryUsers ==
    {LibraryUser(StrV(<<"b">>), StrV("hi"), c, IntV(3), IntV(0), TRUE) : c \in CountValues}
    \cup {LibraryUser(NoneV, NoneV, IntV(7), IntV(0 - 1), IntV(0), FALSE)}

LibraryResponses ==
    {[t |-> "not_installed"]}
    \cup {[t |-> "exception", text |-> x] : x \in ExcTexts}
    \cup {[t |-> "user", user |-> u] : u \in LibraryUsers}

\* "429" in message or "Please wait" in message, on the texts of ExcTexts.
InstagrapiRateLimited(text) ==
    text \in {"429 Too Many Requests", "Please wait a few minutes"}

\* "429" in message or "Too Many Requests" in message.
InstaloaderRateLimited(text) == text \in {"429 Too Many Requests"}

LibraryCounts(u) == <<u.followers, u.following, u.media>>

\* Lines 324-334 once the three counts c are evaluated; a raise inside the
\* try is the failure of line 339.
InstagrapiProfile(handle, u, c) ==
    IF \E i \in 1..3 : c[i].raised
    THEN Failure("Instagrapi failed: cannot convert float NaN to integer")
    ELSE Success(InstagramProfile(TextOr(u.username, handle),
                                  StrOr(u.biography, NoBio),
                                  c[1].v, c[2].v, c[3].v,
                                  IF u.pic THEN 1 ELSE 0),
                 "Instagrapi authenticated")

\* _fetch_via_instagrapi with the import and the login ahead of the test of
\* the credentials (lines 310-311 moved into the try).
FetchViaInstagrapiLoginFirst(handle, cfg, resp) ==
    IF resp.t = "not_installed" THEN Failure("Instagrapi unavailable.")
    ELSE IF resp.t = "exception"
         THEN IF InstagrapiRateLimited(resp.text)
              THEN Failure("Instagrapi rate-limited (429).")
              ELSE Failure("Instagrapi failed: " \o resp.text)
    ELSE IF ~cfg.creds THEN Failure("Instagrapi credentials missing.")
    ELSE InstagrapiProfile(handle, resp.user,
                           [i \in 1..3 |-> ToInt(LibraryCounts(resp.user)[i])])

FetchViaInstagrapi(handle, cfg, resp) ==
    IF ~cfg.creds THEN Failure("Instagrapi credentials missing.")
    ELSE IF resp.t = "not_installed" THEN Failure("Instagrapi unavailable.")
    ELSE IF resp.t = "exception"
         THEN IF InstagrapiRateLimited(resp.text)
              THEN Failure("Instagrapi rate-limited (429).")
              ELSE Failure("Instagrapi failed: " \o resp.text)
    ELSE InstagrapiProfile(handle, resp.user,
                           [i \in 1..3 |-> ToInt(LibraryCounts(resp.user)[i])])

\* int(x), lines 362-364: only a number converts; text with a separator,
\* None and NaN raise inside the try.
IntOf(value) == IF value.t = "int" THEN Returned(value.v) ELSE Raised

\* Lines 359-367 once the three counts c are evaluated.
InstaloaderProfile(u, c) ==
    IF \E i \in 1..3 : c[i].raised
    THEN Failure("Instaloader failed: int() argument")
    ELSE Success(InstagramProfile(TextOr(u.username, <<>>),
                                  StrOr(u.biography, NoBio),
                                  c[1].v, c[2].v, c[3].v, 1),
                 "Instaloader")

FetchViaInstaloader(handle, cfg, resp) ==
    IF ~cfg.instaloader THEN Failure("Instaloader disabled.")
    ELSE IF resp.t = "not_installed" THEN Failure("Instaloader unavailable.")
    ELSE IF resp.t = "exception"
         THEN IF InstaloaderRateLimited(resp.text)
              THEN Failure("Instaloader rate-limited (429).")
              ELSE Failure("Instaloader failed: " \o resp.text)
    ELSE InstaloaderProfile(resp.user, [i \in 1..3 |-> IntOf(LibraryCounts(resp.user)[i])])

(***************************************************************************)
(* fetch_instagram_profile (447-486).                                      *)
(***************************************************************************)
\* The username of end-to-end scenario 4.
AliceRaw == <<"@", " ", " ", "a", "l", "i", "c", "e", " ", " ">>
Alice == <<"a", "l", "i", "c", "e">>

Usernames ==
    {NoneV, StrV(<<>>), StrV(<<" ">>), StrV(<<"@">>), StrV(<<" ", "@", " ">>),
     StrV(<<"a">>), StrV(<<" ", "@", "a", " ">>), StrV(<<"@", " ", "a">>),
     StrV(AliceRaw)}

Configs == [creds : BOOLEAN, instaloader : BOOLEAN]

\* Line 464: (username or "").strip().lstrip("@").
CleanUsername(raw) == LStripAt(Strip(IF raw.t = "none" THEN <<>> ELSE raw.v))

Fetchers == <<"instagrapi", "web_profile_api", "legacy_json", "requests",
              "playwright", "instaloader">>

NoResult == [kind |-> "none", profile |-> NoProfile, message |-> ""]

\* " | ".join(error for error in errors if error), line 485.
JoinErrorsLastOnly(errs) ==
    IF errs = <<>> THEN "" ELSE errs[Len(errs)]

RECURSIVE JoinErrors(_)
JoinErrors(errs) ==
    IF errs = <<>> THEN ""
    ELSE IF Head(errs) = "" THEN JoinErrors(Tail(errs))
    ELSE IF JoinErrors(Tail(errs)) = "" THEN Head(errs)
    ELSE Head(errs) \o " | " \o JoinErrors(Tail(errs))

ExhaustedMessage(errs) ==
    "Unable to fetch from Instagram. Please enter account details manually. ("
        \o JoinErrors(errs) \o ")"

\* No call of a pure function is in progress.
NoCall == args = <<>> /\ locals = <<>> /\ ret = <<>>

Init ==
    /\ pc = "idle"
    /\ username \in Usernames
    /\ config \in Configs
    /\ cleaned_username = <<>>
    /\ next_fetcher = 0
    /\ errors = <<>>
    /\ invoked = <<>>
    /\ result = NoResult
    /\ NoCall

\* Lines 464-477 without the test of lines 465-466.
EnterUnchecked ==
    /\ pc = "idle"
    /\ cleaned_username' = CleanUsername(username)
    /\ pc' = "running"
    /\ next_fetcher' = 1
    /\ errors' = <<>>
    /\ UNCHANGED <<username, config, invoked, result, args, locals, ret>>

\* Lines 464-477: normalise, refuse a blank username, set up the loop.
Enter ==
    /\ pc = "idle"
    /\ cleaned_username' = CleanUsername(username)
    /\ IF cleaned_username' = <<>>
       THEN /\ pc' = "returned"
            /\ result' = Failure("Please enter a valid username.")
            /\ next_fetcher' = next_fetcher
       ELSE /\ pc' = "running"
            /\ result' = result
            /\ next_fetcher' = 1
    /\ errors' = <<>>
    /\ UNCHANGED <<username, config, invoked, args, locals, ret>>

\* The loop of lines 479-483 without the return of line 482: a profile is
\* kept and the next fetcher still runs.
LoopBodyKeepGoing(i, out) ==
    /\ invoked' = Append(invoked, [fetcher |-> Fetchers[i], handle |-> cleaned_username,
                                   outcome |-> out])
    /\ IF out.kind = "raise"
       THEN /\ pc' = "raised"
            /\ result' = out
            /\ UNCHANGED <<errors, next_fetcher>>
       ELSE /\ errors' = IF out.profile # NoProfile THEN errors
                         ELSE Append(errors, out.message)
            /\ next_fetcher' = i + 1
            /\ IF i < Len(Fetchers)
               THEN /\ pc' = pc
                    /\ result' = IF out.profile # NoProfile THEN out ELSE result
               ELSE /\ pc' = "returned"
                    /\ result' = IF out.profile # NoProfile THEN out
                                 ELSE IF result.profile # NoProfile THEN result
                                 ELSE Failure(ExhaustedMessage(errors'))
    /\ UNCHANGED <<username, config, cleaned_username, args, locals, ret>>

\* The loop of lines 479-483 with one retry: a fetcher that failed is tried
\* again before the next one runs.
LoopBodyRetry(i, out) ==
    /\ invoked' = Append(invoked, [fetcher |-> Fetchers[i], handle |-> cleaned_username,
                                   outcome |-> out])
    /\ IF out.kind = "raise"
       THEN /\ pc' = "raised"
            /\ result' = out
            /\ UNCHANGED <<errors, next_fetcher>>
       ELSE IF out.profile # NoProfile
       THEN /\ pc' = "returned"
            /\ result' = out
            /\ UNCHANGED <<errors, next_fetcher>>
       ELSE IF Len(invoked) < i
       THEN UNCHANGED <<pc, result, errors, next_fetcher>>
       ELSE /\ errors' = Append(errors, out.message)
            /\ next_fetcher' = i + 1
            /\ IF i < Len(Fetchers)
               THEN UNCHANGED <<pc, result>>
               ELSE /\ pc' = "returned"
                    /\ result' = Failure(ExhaustedMessage(errors'))
    /\ UNCHANGED <<username, config, cleaned_username, args, locals, ret>>

\* One pass of the loop of lines 479-483 with the outcome `out` of fetcher i,
\* and lines 485-486 after the last pass.
LoopBody(i, out) ==
    /\ invoked' = Append(invoked, [fetcher |-> Fetchers[i], handle |-> cleaned_username,
                                   outcome |-> out])
    /\ IF out.kind = "raise"
       THEN /\ pc' = "raised"
            /\ result' = out
            /\ UNCHANGED <<errors, next_fetcher>>
       ELSE IF out.profile # NoProfile
       THEN /\ pc' = "returned"
            /\ result' = out
            /\ UNCHANGED <<errors, next_fetcher>>
       ELSE /\ errors' = Append(errors, out.message)
            /\ next_fetcher' = i + 1
            /\ IF i < Len(Fetchers)
               THEN UNCHANGED <<pc, result>>
               ELSE /\ pc' = "returned"
                    /\ result' = Failure(ExhaustedMessage(errors'))
    /\ UNCHANGED <<username, config, cleaned_username, args, locals, ret>>

Instagrapi ==
    /\ pc = "running" /\ next_fetcher = 1
    /\ \E resp \in LibraryResponses :
          LoopBody(1, FetchViaInstagrapi(cleaned_username, config, resp))

WebProfileApi ==
    /\ pc = "running" /\ next_fetcher = 2
    /\ \E resp \in HttpJsonResponses :
          LoopBody(2, FetchViaWebProfileApi(cleaned_username, resp))

LegacyJson ==
    /\ pc = "running" /\ next_fetcher = 3
    /\ \E resp \in HttpJsonResponses :
          LoopBody(3, FetchViaLegacyJson(cleaned_username, resp))

Requests ==
    /\ pc = "running" /\ next_fetcher = 4
    /\ \E resp \in HttpPageResponses :
          LoopBody(4, FetchViaRequests(cleaned_username, resp))

Playwright ==
    /\ pc = "running" /\ next_fetcher = 5
    /\ \E resp \in BrowserResponses :
          LoopBody(5, FetchViaPlaywright(cleaned_username, resp))

Instaloader ==
    /\ pc = "running" /\ next_fetcher = 6
    /\ \E resp \in LibraryResponses :
          LoopBody(6, FetchViaInstaloader(cleaned_username, config, resp))

Next ==
    \/ Enter
    \/ Instagrapi
    \/ WebProfileApi
    \/ LegacyJson
    \/ Requests
    \/ Playwright
    \/ Instaloader

Spec == Init /\ [][Next]_vars

(***************************************************************************)
(* A call of fetch_instagram_profile for a profile page.  The platform     *)
(* serves the document `args` at the profile URL, to the plain request and *)
(* to the browser alike; its API endpoints refuse, and no credentials and  *)
(* no Instaloader are configured.                                          *)
(***************************************************************************)
InitPage ==
    /\ pc = "idle"
    /\ username = StrV(AliceRaw)
    /\ config = [creds |-> FALSE, instaloader |-> FALSE]
    /\ cleaned_username = <<>>
    /\ next_fetcher = 0
    /\ errors = <<>>
    /\ invoked = <<>>
    /\ result = NoResult
    /\ args \in Documents
    /\ locals = <<>>
    /\ ret = <<>>

\* Fetchers 1 to 3 (lines 470-473) against endpoints that refuse.
PageRefused ==
    /\ pc = "running" /\ next_fetcher \in 1..3
    /\ \E s \in Statuses \ {200} :
          LoopBody(next_fetcher,
                   CASE next_fetcher = 1 ->
                          FetchViaInstagrapi(cleaned_username, config, [t |-> "not_installed"])
                     [] next_fetcher = 2 ->
                          FetchViaWebProfileApi(cleaned_username,
                              [t |-> "http", status |-> s, body |-> [t |-> "notjson"]])
                     [] OTHER ->
                          FetchViaLegacyJson(cleaned_username,
                              [t |-> "http", status |-> s, body |-> [t |-> "notjson"]]))

\* Fetcher 4 (line 474) on the page.
PageRequests ==
    /\ pc = "running" /\ next_fetcher = 4
    /\ LoopBody(4, FetchViaRequests(cleaned_username, [t |-> "http", status |-> 200, doc |-> args]))

\* Fetcher 5 (line 475) on the page.
PagePlaywright ==
    /\ pc = "running" /\ next_fetcher = 5
    /\ LoopBody(5, FetchViaPlaywright(cleaned_username, [t |-> "http", status |-> 200, doc |-> args]))

\* Fetcher 6 (line 476).
PageInstaloader ==
    /\ pc = "running" /\ next_fetcher = 6
    /\ LoopBody(6, FetchViaInstaloader(cleaned_username, config, [t |-> "not_installed"]))

NextPage ==
    \/ Enter
    \/ PageRefused
    \/ PageRequests
    \/ PagePlaywright
    \/ PageInstaloader

SpecPage == InitPage /\ [][NextPage]_vars

(***************************************************************************)
(* The other calls leave the fetcher where it stands.                      *)
(***************************************************************************)
fetch_vars == <<username, config, cleaned_username, next_fetcher, errors,
                invoked, result>>

NoFetch ==
    /\ username = NoneV
    /\ config = [creds |-> FALSE, instaloader |-> FALSE]
    /\ cleaned_username = <<>>
    /\ next_fetcher = 0
    /\ errors = <<>>
    /\ invoked = <<>>
    /\ result = NoResult

(***************************************************************************)
(* compute_verdict (verdict.py:14-72).  Confidence and similarity are      *)
(* multiples of 1/Grid; risks are carried in units of 1/(2 * Grid), which  *)
(* holds the 0.5 of an absent similarity.  On these inputs Python's        *)
(* round() of the float expression is the exact round-half-to-even.        *)
(***************************************************************************)
Grid == 20

Labels == {"Fake", "Real"}
ImageStatuses == {"Original", "Possibly Reused", "No Image"}

VerdictInputs ==
    [account_prediction : Labels,
     account_confidence : 0..Grid,
     image_status : ImageStatuses,
     image_similarity_score : {NoneV} \cup {IntV(s) : s \in 0..Grid}]

VerdictResult(verdict, risk_score, reasoning) ==
    [verdict |-> verdict, risk_score |-> risk_score, reasoning |-> reasoning]

\* round(num / den): to nearest, ties to even.
RoundHalfEven(num, den) ==
    IF 2 * (num % den) > den \/ (2 * (num % den) = den /\ (num \div den) % 2 = 1)
    THEN (num \div den) + 1
    ELSE num \div den

Min(a, b) == IF a < b THEN a ELSE b
Max(a, b) == IF a > b THEN a ELSE b

\* Lines 32-33: an absent similarity is 0.5.
SimilarityOrHalf(score) == IF score.t = "none" THEN Grid ELSE 2 * score.v

\* Line 35.
AccountRisk(a) ==
    IF a.account_prediction = "Fake" THEN 2 * a.account_confidence
    ELSE 2 * (Grid - a.account_confidence)

\* Line 36.
ImageRisk(a) ==
    IF a.image_status = "Possibly Reused" THEN SimilarityOrHalf(a.image_similarity_score)
    ELSE 0

\* Lines 38-39: int(round((account_risk * 0.6 + image_risk * 0.4) * 100)).
BaseRisk(a) == RoundHalfEven(60 * AccountRisk(a) + 40 * ImageRisk(a), 2 * Grid)

\* Lines 41-72 with a score threshold deciding between the two Fake verdicts.
BranchesByScore(a, risk_score) ==
    IF a.account_prediction = "Fake" /\ risk_score + 20 >= 80
    THEN VerdictResult("High Risk Fake", Min(100, risk_score + 20),
             "Account behavior suggests fake AND profile image appears reused.")
    ELSE IF a.account_prediction = "Fake"
    THEN VerdictResult("Suspicious", Max(50, risk_score + 10),
             "Account behavior suggests fake but profile image appears original.")
    ELSE IF a.image_status = "Original"
    THEN VerdictResult("Likely Genuine", Max(0, risk_score - 20),
             "Account behavior suggests real AND profile image appears original.")
    ELSE VerdictResult("Needs Review", risk_score,
             "Unable to determine verdict with available data.")

\* Lines 41-72: the four branches and the catch-all.
Branches(a, risk_score) ==
    IF a.account_prediction = "Fake" /\ a.image_status = "Possibly Reused"
    THEN VerdictResult("High Risk Fake", Min(100, risk_score + 20),
             "Account behavior suggests fake AND profile image appears reused.")
    ELSE IF a.account_prediction = "Fake" /\ a.image_status = "Original"
    THEN VerdictResult("Suspicious", Max(50, risk_score + 10),
             "Account behavior suggests fake but profile image appears original.")
    ELSE IF a.account_prediction = "Real" /\ a.image_status = "Original"
    THEN VerdictResult("Likely Genuine", Max(0, risk_score - 20),
             "Account behavior suggests real AND profile image appears original.")
    ELSE IF a.account_prediction = "Real" /\ a.image_status = "Possibly Reused"
    THEN VerdictResult("Needs Review", risk_score + 5,
             "Account behavior suggests real but profile image appears reused.")
    ELSE VerdictResult("Needs Review", risk_score,
             "Unable to determine verdict with available data.")

compute_verdict(a) == Branches(a, BaseRisk(a))

InitVerdict ==
    /\ pc = "verdict_call"
    /\ args \in VerdictInputs
    /\ locals = <<>>
    /\ ret = <<>>
    /\ NoFetch

ComputeVerdict ==
    /\ pc = "verdict_call"
    /\ ret' = compute_verdict(args)
    /\ pc' = "verdict_done"
    /\ UNCHANGED <<args, locals>>
    /\ UNCHANGED fetch_vars

NextVerdict == ComputeVerdict

SpecVerdict == InitVerdict /\ [][NextVerdict]_vars

(***************************************************************************)
(* Calls of _to_int on its own.                                            *)
(***************************************************************************)
MaxTextLen == 3

TextAlphabet == {"1", "4", ".", ",", "k", "M", "-", " ", "x"}

\* The texts of the numeric-normalization examples, and a few more.
ExampleTexts ==
    {<<"1", ",", "2", "3", "4">>, <<"1", "2", ".", "3", "k">>, <<"1", ".", "5", "m">>,
     <<"N", "/", "A">>, <<"1", ".", "2", ".", "3", "k">>, <<"4", ".", "1", "m">>,
     <<"8", ".", "2", "M">>, <<"3", "2", ".", "3", "K">>, <<" ", "2", ".", "5", "k", " ">>}

Texts == ExampleTexts \cup UNION {[1..n -> TextAlphabet] : n \in 0..MaxTextLen}

ToIntInputs ==
    {NoneV, NanV, IntV(7), IntV(0), IntV(0 - 1)} \cup {StrV(s) : s \in Texts}

InitToInt ==
    /\ pc = "to_int_call"
    /\ args \in ToIntInputs
    /\ locals = <<>>
    /\ ret = <<>>
    /\ NoFetch

ToIntCall ==
    /\ pc = "to_int_call"
    /\ ret' = ToInt(args)
    /\ pc' = IF ret'.raised THEN "to_int_raised" ELSE "to_int_done"
    /\ UNCHANGED <<args, locals>>
    /\ UNCHANGED fetch_vars

NextToInt == ToIntCall

SpecToInt == InitToInt /\ [][NextToInt]_vars

(***************************************************************************)
(* check_image_originality (image_check.py:18-60).  The uploaded image is  *)
(* missing, unreadable or hashable; a corpus entry is a directory, a file  *)
(* that does not hash, or an image at a Hamming distance from the upload.  *)
(* A similarity is carried in ten-thousandths, the four places of round(). *)
(***************************************************************************)
DEFAULT_THRESHOLD == 8
DefaultHashSize == 8

MaxHashSize == 3
MaxThreshold == 1
MaxCorpus == 2

HashSizes == (2..MaxHashSize) \cup {DefaultHashSize}
Thresholds == (0..MaxThreshold) \cup {DEFAULT_THRESHOLD}

Distances(h) ==
    {d \in {0, 1, 2, DEFAULT_THRESHOLD, DEFAULT_THRESHOLD + 1, h * h} : d <= h * h}

Entries(h) ==
    {[t |-> "dir"], [t |-> "unreadable"]}
    \cup {[t |-> "image", distance |-> d] : d \in Distances(h)}

Corpora(h) == UNION {[1..n -> Entries(h)] : n \in 0..MaxCorpus}

ImageInputs ==
    UNION {[image : {"ok"}, hash_size : {h}, threshold : Thresholds, corpus : Corpora(h)] :
              h \in HashSizes}
    \cup [image : {"missing", "unreadable"}, hash_size : {DefaultHashSize},
          threshold : {DEFAULT_THRESHOLD}, corpus : {<<>>}]

\* Lines 30-35: a missing image raises FileNotFoundError, one that does not
\* hash raises out of _compute_hash; else the scan starts with no match.
ImageEnter ==
    /\ pc = "image_call"
    /\ IF args.image = "ok"
       THEN /\ pc' = "image_scan"
            /\ locals' = [i |-> 1, closest_distance |-> NoneV, closest_match |-> NoneV]
       ELSE /\ pc' = "image_raised"
            /\ locals' = locals
    /\ UNCHANGED <<args, ret>>
    /\ UNCHANGED fetch_vars

\* Lines 44-47 with <= for < in the comparison of line 45.
CloserOrEqual(l, i, distance) ==
    IF l.closest_distance.t = "none" \/ distance <= l.closest_distance.v
    THEN [i |-> i + 1, closest_distance |-> IntV(distance), closest_match |-> IntV(i)]
    ELSE [l EXCEPT !.i = i + 1]

\* Lines 44-47 for a candidate that hashed at `distance`.
Closer(l, i, distance) ==
    IF l.closest_distance.t = "none" \/ distance < l.closest_distance.v
    THEN [i |-> i + 1, closest_distance |-> IntV(distance), closest_match |-> IntV(i)]
    ELSE [l EXCEPT !.i = i + 1]

\* One pass of the loop of lines 37-47.
ImageScan ==
    /\ pc = "image_scan"
    /\ locals.i <= Len(args.corpus)
    /\ locals' = IF args.corpus[locals.i].t = "image"
                 THEN Closer(locals, locals.i, args.corpus[locals.i].distance)
                 ELSE [locals EXCEPT !.i = locals.i + 1]
    /\ UNCHANGED <<pc, args, ret>>
    /\ UNCHANGED fetch_vars

\* Lines 52 and 57 with the fifth place cut off instead of rounded.
SimilarityTruncated(distance, hash_size) ==
    Max(0, ((hash_size * hash_size - distance) * 100 * 100) \div (hash_size * hash_size))

\* Lines 52 and 57: max(0.0, 1.0 - distance / hash_size^2), rounded to four
\* places.
Similarity(distance, hash_size) ==
    Max(0, RoundHalfEven((hash_size * hash_size - distance) * 100 * 100,
                         hash_size * hash_size))

\* Lines 52-60 with < for <= in the comparison of line 53.
ImageResultStrict(a, l, distance) ==
    [image_status |-> IF distance < a.threshold THEN "Possibly Reused" ELSE "Original",
     similarity_score |-> Similarity(distance, a.hash_size),
     closest_distance |-> distance,
     closest_match |-> l.closest_match]

\* Lines 52-60 with closest_distance settled.
ImageResult(a, l, distance) ==
    [image_status |-> IF distance <= a.threshold THEN "Possibly Reused" ELSE "Original",
     similarity_score |-> Similarity(distance, a.hash_size),
     closest_distance |-> distance,
     closest_match |-> l.closest_match]

\* Lines 49-60.
ImageReturn ==
    /\ pc = "image_scan"
    /\ locals.i > Len(args.corpus)
    /\ ret' = ImageResult(args, locals,
                          IF locals.closest_distance.t = "none"
                          THEN args.hash_size * args.hash_size
                          ELSE locals.closest_distance.v)
    /\ pc' = "image_done"
    /\ UNCHANGED <<args, locals>>
    /\ UNCHANGED fetch_vars

InitImage ==
    /\ pc = "image_call"
    /\ args \in ImageInputs
    /\ locals = <<>>
    /\ ret = <<>>
    /\ NoFetch

NextImage ==
    \/ ImageEnter
    \/ ImageScan
    \/ ImageReturn

SpecImage == InitImage /\ [][NextImage]_vars

(***************************************************************************)
(* The analysis step of the application (streamlit_app.py:146-165).  A     *)
(* submission is the probability the classifier gives the account, on the  *)
(* grid of the verdict inputs, and an upload: none, one that does not      *)
(* hash, or one for which check_image_originality answers with a status    *)
(* and a similarity.                                                       *)
(***************************************************************************)
AppInputs ==
    [probability : 0..Grid,
     upload : {[t |-> "none"], [t |-> "unreadable"]}
              \cup {[t |-> "image", image_status |-> s, similarity_score |-> k] :
                        s \in {"Original", "Possibly Reused"}, k \in 0..Grid}]

\* Line 149: "Fake" if probability >= 0.5 else "Real".
AppPrediction(probability) == IF 2 * probability >= Grid THEN "Fake" ELSE "Real"

\* The confidence of the label shown, in place of the probability of Fake.
AppConfidenceOfLabel(probability) == Max(probability, Grid - probability)

\* Line 161: account_confidence = probability.
AppConfidence(probability) == probability

\* Lines 146-157: the label, and the image result when there is an upload;
\* an upload that does not hash raises out of check_image_originality.
AppAnalyze ==
    /\ pc = "app_submitted"
    /\ IF args.upload.t = "unreadable"
       THEN /\ pc' = "app_raised"
            /\ locals' = locals
       ELSE /\ pc' = "app_analyzed"
            /\ locals' =
                  [account_prediction |-> AppPrediction(args.probability),
                   account_confidence |-> AppConfidence(args.probability),
                   image_status |-> IF args.upload.t = "none" THEN "No Image"
                                    ELSE args.upload.image_status,
                   image_similarity_score |->
                       IF args.upload.t = "none" THEN NoneV
                       ELSE IntV(args.upload.similarity_score)]
    /\ UNCHANGED <<args, ret>>
    /\ UNCHANGED fetch_vars

\* Lines 159-164.
AppVerdict ==
    /\ pc = "app_analyzed"
    /\ ret' = compute_verdict(locals)
    /\ pc' = "app_done"
    /\ UNCHANGED <<args, locals>>
    /\ UNCHANGED fetch_vars

InitApp ==
    /\ pc = "app_submitted"
    /\ args \in AppInputs
    /\ locals = <<>>
    /\ ret = <<>>
    /\ NoFetch

NextApp ==
    \/ AppAnalyze
    \/ AppVerdict

SpecApp == InitApp /\ [][NextApp]_vars

(***************************************************************************)
(* Properties of fetch_instagram_profile, checked under Spec.              *)
(***************************************************************************)
\* C1: as soon as a strategy returns a profile, the call returns exactly that
\* strategy's profile and label, and no later strategy is invoked: a
\* successful outcome is always the last invocation of a returned call, and
\* the call's result is that outcome.
C1_FirstSuccessReturned ==
    \A i \in 1..Len(invoked) :
        (invoked[i].outcome.kind = "return" /\ invoked[i].outcome.profile # NoProfile)
            => /\ i = Len(invoked)
               /\ pc = "returned"
               /\ result = invoked[i].outcome

\* A call that returned the web API's profile after Instagrapi failed.
C1_SuccessAfterFailure ==
    /\ pc = "returned"
    /\ Len(invoked) = 2
    /\ invoked[1].outcome.profile = NoProfile
    /\ result.profile # NoProfile
    /\ result.message = "Instagram web API"

\* C2: whatever the platform does, every strategy yields a profile or a
\* failure reason and the call returns a (profile, message) value: no fault
\* escapes a strategy or the orchestrator.
C2_NoFaultEscapes ==
    /\ pc # "raised"
    /\ \A i \in 1..Len(invoked) : invoked[i].outcome.kind = "return"

\* C3: a username that is empty, None or blank after normalization makes the
\* call return a failure at once, with no strategy invoked.
C3_BlankUsernameRefused ==
    (pc # "idle" /\ CleanUsername(username) = <<>>)
        => /\ pc = "returned"
           /\ result.kind = "return"
           /\ result.profile = NoProfile
           /\ result.message = "Please enter a valid username."
           /\ invoked = <<>>

\* The call returned for the username " @ ", blank once normalized.
C3_BlankReturned ==
    /\ pc = "returned"
    /\ username = StrV(<<" ", "@", " ">>)
    /\ result.message = "Please enter a valid username."

\* C4: the handle given to every strategy has no leading "@" and no leading
\* or trailing whitespace, and "@  alice  " is handed over as "alice".
C4_HandleNormalized ==
    \A i \in 1..Len(invoked) :
        /\ invoked[i].handle # <<>>
        /\ Head(invoked[i].handle) \notin {"@", " "}
        /\ invoked[i].handle[Len(invoked[i].handle)] # " "
        /\ username = StrV(AliceRaw) => invoked[i].handle = Alice

\* C5: when all six strategies fail for a non-empty username, the call
\* returns no profile and a message holding the six failure reasons, each
\* once and in the order of the attempts; none of them is empty.
C5_ExhaustedCarriesAllReasons ==
    (pc = "returned" /\ cleaned_username # <<>> /\ result.profile = NoProfile)
        => /\ Len(invoked) = 6
           /\ \A i \in 1..6 :
                 /\ invoked[i].fetcher = Fetchers[i]
                 /\ invoked[i].outcome.kind = "return"
                 /\ invoked[i].outcome.profile = NoProfile
                 /\ invoked[i].outcome.message # ""
           /\ result.message =
                 "Unable to fetch from Instagram. Please enter account details manually. ("
                     \o invoked[1].outcome.message \o " | "
                     \o invoked[2].outcome.message \o " | "
                     \o invoked[3].outcome.message \o " | "
                     \o invoked[4].outcome.message \o " | "
                     \o invoked[5].outcome.message \o " | "
                     \o invoked[6].outcome.message \o ")"

\* A call that ran out of strategies.
C5_Exhausted ==
    /\ pc = "returned"
    /\ Len(invoked) = 6
    /\ result.profile = NoProfile
    /\ invoked[1].outcome.message = "Instagrapi credentials missing."
    /\ invoked[6].outcome.message = "Instaloader disabled."

\* C8: every profile the call returns has followers_count, following_count
\* and media_count that are integers >= 0.
C8_CountsNonNegative ==
    (pc = "returned" /\ result.profile # NoProfile)
        => /\ result.profile.followers_count >= 0
           /\ result.profile.following_count >= 0
           /\ result.profile.media_count >= 0

\* C11: without credentials only the authenticated-client strategy is
\* disabled: whatever the library would answer it is not asked and the
\* strategy fails with "credentials missing", and the call goes on to the web
\* API; the third-party strategy, unless enabled, fails with "disabled"
\* whatever the library would answer.
C11_DisabledWithoutNetwork ==
    /\ ~config.creds =>
          /\ \A resp \in LibraryResponses :
                FetchViaInstagrapi(cleaned_username, config, resp)
                    = Failure("Instagrapi credentials missing.")
          /\ Len(invoked) >= 1 =>
                invoked[1].outcome = Failure("Instagrapi credentials missing.")
          /\ Len(invoked) = 1 => (pc = "running" /\ next_fetcher = 2)
          /\ Len(invoked) >= 2 => invoked[2].fetcher = "web_profile_api"
    /\ ~config.instaloader =>
          /\ \A resp \in LibraryResponses :
                FetchViaInstaloader(cleaned_username, config, resp)
                    = Failure("Instaloader disabled.")
          /\ Len(invoked) = 6 => invoked[6].outcome = Failure("Instaloader disabled.")

\* Without credentials, the call returned the profile of the legacy JSON
\* strategy.
C11_LegacyWithoutCredentials ==
    /\ ~config.creds
    /\ ~config.instaloader
    /\ pc = "returned"
    /\ Len(invoked) = 3
    /\ invoked[1].outcome.message = "Instagrapi credentials missing."
    /\ result.message = "Instagram legacy JSON"

MetaCounts == [i \in 1..3 |-> ToInt(StrV(parse_counts(args.meta)[i])).v]

\* The counts of the embedded count fields, 0 for a field that is missing.
EmbeddedCounts ==
    [i \in 1..3 |-> IF args.hints[i] = NoneV THEN 0 ELSE ToInt(args.hints[i]).v]

\* C14: the extractor returns no profile exactly when, after the fallbacks,
\* the three counts are all zero and the biography is the placeholder
\* "(No bio)", and a profile in every other case; on no profile the
\* plain-document strategy reports a failure and the headless browser is
\* the next strategy to run.
C14_NoProfileExactlyWhenEmpty ==
    Len(invoked) >= 4 =>
        Only({/\ (invoked[4].outcome.profile = NoProfile) <=> empty
              /\ empty =>
                    /\ invoked[4].outcome = Failure("Instagram page parsing failed.")
                    /\ Len(invoked) = 4 => (pc = "running" /\ next_fetcher = 5)
                    /\ Len(invoked) >= 5 => invoked[5].fetcher = "playwright"
              /\ ~empty =>
                    /\ invoked[4].outcome.kind = "return"
                    /\ invoked[4].outcome.message = "Requests scraper"
                    /\ invoked[4].outcome.profile.bio = PageBio(args)
                    /\ pc = "returned"
                    /\ result = invoked[4].outcome
              : empty \in {/\ AllZero(MetaCounts)
                           /\ AllZero(EmbeddedCounts)
                           /\ PageBio(args) = "(No bio)"}})

\* A page whose description gives three zero counts and that has no
\* biography: the plain-document strategy failed and the browser ran next.
C14_EmptyPageThenBrowser ==
    /\ Len(invoked) >= 5
    /\ args.meta = Meta(StrV(<<"0">>), StrV(<<"0">>), StrV(<<"0">>))
    /\ invoked[4].outcome = Failure("Instagram page parsing failed.")
    /\ invoked[5].fetcher = "playwright"

\* C15: the embedded count fields are consulted exactly when the three
\* counts of the meta description are all zero or unavailable; they then
\* replace all three counts, a missing field giving 0; when one count of the
\* description is non-zero the three counts of the description are returned.
C15_HintsOnlyWhenAllZero ==
    (Len(invoked) >= 4 /\ invoked[4].outcome.profile # NoProfile) =>
        Only({<<invoked[4].outcome.profile.followers_count,
                invoked[4].outcome.profile.following_count,
                invoked[4].outcome.profile.media_count>>
                  = (IF AllZero(m) THEN EmbeddedCounts ELSE m)
              : m \in {MetaCounts}})

\* The description gives 5 followers, 0 following and no posts, the page
\* embeds a media count, and the profile has the counts of the description.
C15_PartialDescriptionKept ==
    /\ Len(invoked) >= 4
    /\ args.meta = Meta(StrV(<<"5">>), StrV(<<"0">>), NoneV)
    /\ args.hints[3] # NoneV
    /\ invoked[4].outcome.profile # NoProfile
    /\ invoked[4].outcome.profile.followers_count = 5
    /\ invoked[4].outcome.profile.media_count = 0

\* The description gives no count, and the profile has the embedded counts.
C15_EmbeddedCountsUsed ==
    /\ Len(invoked) >= 4
    /\ args.meta = NoMeta
    /\ invoked[4].outcome.profile # NoProfile
    /\ invoked[4].outcome.profile.followers_count = 12
    /\ invoked[4].outcome.profile.following_count = 0
    /\ invoked[4].outcome.profile.media_count = 3

(***************************************************************************)
(* Properties of compute_verdict, checked under SpecVerdict.               *)
(***************************************************************************)
\* C6: for every label, confidence, image status and similarity (or none),
\* the risk_score returned is an integer in 0..100.
C6_RiskScoreInRange ==
    pc = "verdict_done" => ret.risk_score \in 0..100

\* C7: the verdict is determined by the pair (label, image status) alone:
\* (Fake, Possibly Reused) High Risk Fake, (Fake, Original) Suspicious,
\* (Real, Original) Likely Genuine, (Real, Possibly Reused) Needs Review, and
\* any other pair Needs Review with the insufficient-data reasoning.
C7_VerdictByPair ==
    pc = "verdict_done" =>
        CASE args.account_prediction = "Fake" /\ args.image_status = "Possibly Reused"
                -> ret.verdict = "High Risk Fake"
          [] args.account_prediction = "Fake" /\ args.image_status = "Original"
                -> ret.verdict = "Suspicious"
          [] args.account_prediction = "Real" /\ args.image_status = "Original"
                -> ret.verdict = "Likely Genuine"
          [] args.account_prediction = "Real" /\ args.image_status = "Possibly Reused"
                -> ret.verdict = "Needs Review"
          [] OTHER
                -> /\ ret.verdict = "Needs Review"
                   /\ ret.reasoning = "Unable to determine verdict with available data."

\* A confident Fake with an original image is Suspicious, not more.
C7_ConfidentFakeOriginal ==
    /\ pc = "verdict_done"
    /\ args.account_prediction = "Fake"
    /\ args.account_confidence = Grid
    /\ args.image_status = "Original"
    /\ ret.verdict = "Suspicious"
    /\ ret.risk_score = 70

\* C13: risk_score is min(100, baseRisk + 20) for (Fake, Possibly Reused),
\* max(50, baseRisk + 10) for (Fake, Original), max(0, baseRisk - 20) for
\* (Real, Original), baseRisk + 5 clamped to 100 for (Real, Possibly Reused)
\* and baseRisk for any other pair, where baseRisk is
\* round(100 * (0.6 * accountRisk + 0.4 * imageRisk)), accountRisk is the
\* confidence for Fake and 1 - confidence for Real, and imageRisk is the
\* similarity (0.5 when absent) for Possibly Reused and 0 otherwise.
C13_RiskArithmetic ==
    pc = "verdict_done" =>
        LET accountRisk == IF args.account_prediction = "Fake"
                           THEN 2 * args.account_confidence
                           ELSE 2 * Grid - 2 * args.account_confidence
            imageRisk == IF args.image_status # "Possibly Reused" THEN 0
                         ELSE IF args.image_similarity_score = NoneV THEN Grid
                         ELSE 2 * args.image_similarity_score.v
            twice == (100 * (6 * accountRisk + 4 * imageRisk)) \div (10 * Grid)
            baseRisk == IF twice % 2 = 0 THEN twice \div 2
                        ELSE IF (100 * (6 * accountRisk + 4 * imageRisk)) % (10 * Grid) > 0
                        THEN twice \div 2 + 1
                        ELSE IF (twice \div 2) % 2 = 0 THEN twice \div 2
                        ELSE twice \div 2 + 1
        IN  ret.risk_score =
              CASE args.account_prediction = "Fake" /\ args.image_status = "Possibly Reused"
                     -> Min(100, baseRisk + 20)
                [] args.account_prediction = "Fake" /\ args.image_status = "Original"
                     -> Max(50, baseRisk + 10)
                [] args.account_prediction = "Real" /\ args.image_status = "Original"
                     -> Max(0, baseRisk - 20)
                [] args.account_prediction = "Real" /\ args.image_status = "Possibly Reused"
                     -> Min(100, baseRisk + 5)
                [] OTHER -> baseRisk

(***************************************************************************)
(* Properties of _to_int, checked under SpecToInt.                         *)
(***************************************************************************)
\* C9: _to_int drops the thousands separators, reads the text before a
\* trailing k or m as a decimal number and multiplies it by 1,000 or
\* 1,000,000, and gives 0 for empty, "N/A" and any other non-numeric text.
C9_DecimalTimesSuffix ==
    (pc = "to_int_done" /\ args.t = "str") =>
        ret.v =
            LET cleaned == RemoveCommas(Lower(Strip(args.v)))
                mult == IF cleaned = <<>> THEN 1 ELSE SplitSuffix(cleaned).mult
                p == IF cleaned = <<>> THEN ParseFloat(<<>>)
                     ELSE ParseFloat(SplitSuffix(cleaned).text)
            IN  IF cleaned = <<>> \/ cleaned = <<"n", "/", "a">> \/ ~p.ok THEN 0
                ELSE Signed(p.neg, (p.n * mult) \div Pow10(p.d))

(***************************************************************************)
(* Properties of check_image_originality, checked under SpecImage.         *)
(***************************************************************************)
\* C10: with no readable image in the corpus, for every hash_size and
\* threshold, the closest distance is hash_size squared and the result is
\* Original, similarity 0.0, closest_match None.
C10_EmptyCorpusOriginal ==
    (pc = "image_done" /\ \A i \in 1..Len(args.corpus) : args.corpus[i].t # "image")
        => /\ ret.closest_distance = args.hash_size * args.hash_size
           /\ ret.image_status = "Original"
           /\ ret.similarity_score = 0
           /\ ret.closest_match = NoneV

\* C16: image_status is Possibly Reused exactly when closest_distance is at
\* most the threshold (8 by default) and Original otherwise; a distance equal
\* to the threshold is Possibly Reused.
C16_ReusedIffWithinThreshold ==
    /\ DEFAULT_THRESHOLD = 8
    /\ pc = "image_done" =>
          /\ ret.image_status \in {"Possibly Reused", "Original"}
          /\ ret.image_status = "Possibly Reused" <=> ret.closest_distance <= args.threshold

\* The closest image is at distance 8 under the default threshold.
C16_AtThreshold ==
    /\ pc = "image_done"
    /\ args.threshold = DEFAULT_THRESHOLD
    /\ args.hash_size = DefaultHashSize
    /\ ret.closest_match # NoneV
    /\ ret.closest_distance = DEFAULT_THRESHOLD
    /\ ret.image_status = "Possibly Reused"

\* C17 as stated: similarity_score is exactly 1 - closest_distance /
\* hash_size^2, lies in [0, 1], is strictly lower for a larger closest
\* distance, and is 1.0 at distance 0.
C17_SimilarityExact ==
    pc = "image_done" =>
        /\ ret.similarity_score * args.hash_size * args.hash_size
              = (args.hash_size * args.hash_size - ret.closest_distance) * 100 * 100
        /\ ret.similarity_score \in 0..(100 * 100)
        /\ ret.closest_distance = 0 => ret.similarity_score = 100 * 100
        /\ \A d \in 0..(args.hash_size * args.hash_size) :
              d > ret.closest_distance =>
                  Similarity(d, args.hash_size) < ret.similarity_score

\* C17, amended: similarity_score is 1 - closest_distance / hash_size^2
\* rounded to four decimal places (within half of 0.0001 of it), lies in
\* [0, 1], is strictly lower for a larger closest distance, and is 1.0 at
\* distance 0.
C17_SimilarityRounded ==
    pc = "image_done" =>
        /\ 2 * (ret.similarity_score * args.hash_size * args.hash_size
                 - (args.hash_size * args.hash_size - ret.closest_distance) * 100 * 100)
              \in (0 - args.hash_size * args.hash_size)..(args.hash_size * args.hash_size)
        /\ ret.similarity_score \in 0..(100 * 100)
        /\ ret.closest_distance = 0 => ret.similarity_score = 100 * 100
        /\ ret.closest_distance = args.hash_size * args.hash_size => ret.similarity_score = 0
        /\ \A d \in 0..(args.hash_size * args.hash_size) :
              d > ret.closest_distance =>
                  Similarity(d, args.hash_size) < ret.similarity_score

\* hash_size 3 and closest distance 1: 8/9 is returned as 0.8889.
C17_EightNinths ==
    /\ pc = "image_done"
    /\ args.hash_size = 3
    /\ ret.closest_distance = 1
    /\ ret.similarity_score = 8889

\* C18: the scan visits every entry of the corpus; an entry that is not a
\* file or does not hash is skipped; closest_distance is the least distance
\* over the entries that hash, and closest_match is the first entry in scan
\* order at that distance.
C18_ClosestIsFirstMinimum ==
    pc = "image_done" =>
        /\ locals.i = Len(args.corpus) + 1
        /\ \A i \in 1..Len(args.corpus) :
              args.corpus[i].t = "image" =>
                  /\ ret.closest_distance <= args.corpus[i].distance
                  /\ ret.closest_match # NoneV
                  /\ args.corpus[i].distance = ret.closest_distance
                        => ret.closest_match.v <= i
        /\ ret.closest_match # NoneV =>
              /\ ret.closest_match.v \in 1..Len(args.corpus)
              /\ args.corpus[ret.closest_match.v].t = "image"
              /\ args.corpus[ret.closest_match.v].distance = ret.closest_distance

\* Two images of the corpus are at the same distance and the first of them
\* is the match.
C18_TieKeepsFirst ==
    /\ pc = "image_done"
    /\ Len(args.corpus) = 2
    /\ args.corpus[1].t = "image"
    /\ args.corpus[2].t = "image"
    /\ args.corpus[1].distance = args.corpus[2].distance
    /\ ret.closest_match = IntV(1)

(***************************************************************************)
(* Properties of the analysis step, checked under SpecApp.                 *)
(***************************************************************************)
\* C19: the label the application passes to compute_verdict is Fake exactly
\* when the probability is at least 0.5 and the confidence it passes is that
\* probability, so accountRisk is at least 0.5 in every call it makes, a
\* Likely Genuine verdict has a risk_score of at least 10, and a Real label
\* never comes with a confidence of 0.5 or more (such as 0.95).
C19_AppAccountRiskAtLeastHalf ==
    pc = "app_done" =>
        /\ locals.account_prediction \in {"Fake", "Real"}
        /\ locals.account_prediction = "Fake" <=> 2 * args.probability >= Grid
        /\ locals.account_confidence = args.probability
        /\ 2 * (IF locals.account_prediction = "Fake"
                THEN locals.account_confidence
                ELSE Grid - locals.account_confidence) >= Grid
        /\ ret.verdict = "Likely Genuine" => ret.risk_score >= 10
        /\ ~(locals.account_prediction = "Real" /\ 2 * locals.account_confidence >= Grid)

\* The application returned Likely Genuine for a probability just under
\* 0.5, with a risk_score under 15.
C19_LikelyGenuineNearHalf ==
    /\ pc = "app_done"
    /\ locals.account_prediction = "Real"
    /\ 2 * args.probability >= Grid - 2
    /\ ret.verdict = "Likely Genuine"
    /\ ret.risk_score < 15

====
